---- MODULE Spec2Model ----
(***************************************************************************)
(* Model of the traffic-camera batch aggregator (fetch_all_cameras.py).    *)
(*                                                                         *)
(* Two transition systems share this module:                               *)
(*   Spec        - main(): the orchestration loop over SOURCES, with       *)
(*                 fetch_url / process_source / the report.                *)
(*   AdapterSpec - one format adapter applied to one parsed payload.       *)
(*                                                                         *)
(* Parsed JSON and Python values are tagged records:                       *)
(*   [t |-> "null"]            None / null                                 *)
(*   [t |-> "bool", v |-> b]   True / False                                *)
(*   [t |-> "int",  v |-> n]   an integer                                  *)
(*   [t |-> "float", m, e]     the number m / 10^e, trailing zeros removed *)
(*   [t |-> "str",  v |-> s]   a string, s a sequence of tokens; a token   *)
(*                             is a character or an opaque substring       *)
(*   [t |-> "arr",  v |-> s]   a list                                      *)
(*   [t |-> "obj",  v |-> f]   a dict, f a function from keys to values    *)
(* A Python expression that raises is the value Raise.                     *)
(***************************************************************************)
EXTENDS Integers, Sequences, FiniteSets, TLC

VARIABLES SOURCES, pc, idx, text, result, results, failed, total_cameras,
          output, calls, log, stages, fetches, sleeps, responses,
          a_pc, a_kind, a_source, a_data, a_out

vars == <<SOURCES, pc, idx, text, result, results, failed, total_cameras,
          output, calls, log, stages, fetches, sleeps, responses,
          a_pc, a_kind, a_source, a_data, a_out>>

mainVars == <<SOURCES, pc, idx, text, result, results, failed, total_cameras,
              output, calls, log, stages, fetches, sleeps, responses>>

adapterVars == <<a_pc, a_kind, a_source, a_data, a_out>>

(***************************************************************************)
(* Bounds.                                                                 *)
(***************************************************************************)
MaxSources == 3

MaxEntries == 2

(***************************************************************************)
(* Python values.                                                          *)
(***************************************************************************)
\* The element of a one-element set.  Only({F(x) : x \in {e}}) is F(e) with
\* e evaluated once, as Python evaluates an assignment `x = e`.
Only(S) == CHOOSE y \in S : TRUE

Range(s) == {s[i] : i \in 1..Len(s)}

JNull == [t |-> "null"]

JBool(b) == [t |-> "bool", v |-> b]

JInt(n) == [t |-> "int", v |-> n]

JStr(s) == [t |-> "str", v |-> s]

JArr(s) == [t |-> "arr", v |-> s]

JObj(f) == [t |-> "obj", v |-> f]

EmptyObj == JObj([k \in {} |-> JNull])

EmptyArr == JArr(<<>>)

EmptyStr == JStr(<<>>)

Raise == [t |-> "raise"]

\* Marks a key that a dict literal leaves out; never stored in a dict.
Absent == [t |-> "absent"]

\* bool(x): the truth value Python gives x in `if x`, `x or y`, `not x`.
Truthy(x) ==
    CASE x.t = "null" -> FALSE
      [] x.t = "bool" -> x.v
      [] x.t = "int" -> x.v # 0
      [] x.t = "float" -> x.m # 0
      [] x.t = "str" -> Len(x.v) > 0
      [] x.t = "arr" -> Len(x.v) > 0
      [] x.t = "obj" -> DOMAIN x.v # {}

\* a or b
PyOr(a, b) == IF Truthy(a) THEN a ELSE b

\* d.get(k, default) on a dict d.
Get(d, k, default) == IF k \in DOMAIN d.v THEN d.v[k] ELSE default

\* x has a .get method (only dicts do; None, lists, strings, numbers raise
\* AttributeError).
HasGet(x) == x.t = "obj"

\* len(x) is defined (TypeError otherwise).
HasLen(x) == x.t \in {"str", "arr", "obj"}

PyLen(x) ==
    CASE x.t = "str" -> Len(x.v)
      [] x.t = "arr" -> Len(x.v)
      [] x.t = "obj" -> Cardinality(DOMAIN x.v)

\* x[i] for an integer i with 0 <= i < len(x): a list element, a one-character
\* string, or KeyError on a dict (JSON keys are strings).
Index(x, i) ==
    CASE x.t = "arr" -> x.v[i + 1]
      [] x.t = "str" -> JStr(<<x.v[i + 1]>>)
      [] x.t = "obj" -> Raise

\* `for e in x`: the sequence of elements, or Raise when x is not iterable.
\* A dict iterates its keys and a string its characters.
RECURSIVE SetToSeq(_)
SetToSeq(S) ==
    IF S = {} THEN <<>>
    ELSE LET k == CHOOSE k \in S : TRUE
         IN <<JStr(<<k>>)>> \o SetToSeq(S \ {k})

Iterate(x) ==
    CASE x.t = "arr" -> x
      [] x.t = "str" -> JArr([i \in 1..Len(x.v) |-> JStr(<<x.v[i]>>)])
      [] x.t = "obj" -> JArr(SetToSeq(DOMAIN x.v))
      [] OTHER -> Raise

(***************************************************************************)
(* str() and float().                                                      *)
(***************************************************************************)
Digits == <<"0", "1", "2", "3", "4", "5", "6", "7", "8", "9">>

IsDigit(c) == \E i \in 1..10 : Digits[i] = c

DigitVal(c) == (CHOOSE i \in 1..10 : Digits[i] = c) - 1

RECURSIVE NatToDigits(_)
NatToDigits(n) ==
    IF n < 10 THEN <<Digits[n + 1]>>
    ELSE NatToDigits(n \div 10) \o <<Digits[(n % 10) + 1]>>

\* str(x) for the scalar values an identifier field can hold.
PyStr(x) ==
    CASE x.t = "str" -> x
      [] x.t = "null" -> JStr(<<"None">>)
      [] x.t = "bool" -> JStr(<<IF x.v THEN "True" ELSE "False">>)
      [] x.t = "int" -> JStr(IF x.v < 0 THEN <<"-">> \o NatToDigits(-x.v)
                                        ELSE NatToDigits(x.v))

RECURSIVE Normalize(_, _)
Normalize(m, e) ==
    IF m = 0 THEN [t |-> "float", m |-> 0, e |-> 0]
    ELSE IF e > 0 /\ m % 10 = 0 THEN Normalize(m \div 10, e - 1)
    ELSE [t |-> "float", m |-> m, e |-> e]

\* The number the first n digits of s denote.
RECURSIVE DigitsToNat(_, _)
DigitsToNat(s, n) ==
    IF n = 0 THEN 0
    ELSE DigitsToNat(s, n - 1) * 10 + DigitVal(s[n])

\* float(s) for a string s: [sign] digits [. digits], at least one digit,
\* anything else is ValueError.
ParseFloat(s) ==
    LET signed == Len(s) > 0 /\ s[1] \in {"-", "+"}
        body == IF signed THEN SubSeq(s, 2, Len(s)) ELSE s
        dots == {i \in 1..Len(body) : body[i] = "."}
        ds == SelectSeq(body, IsDigit)
        wellFormed == /\ Cardinality(dots) <= 1
                      /\ Len(ds) >= 1
                      /\ Len(ds) + Cardinality(dots) = Len(body)
        e == IF dots = {} THEN 0 ELSE Len(body) - (CHOOSE i \in dots : TRUE)
        m == DigitsToNat(ds, Len(ds))
    IN IF ~wellFormed THEN Raise
       ELSE Normalize(IF signed /\ s[1] = "-" THEN -m ELSE m, e)

\* float(x)
PyFloat(x) ==
    CASE x.t = "str" -> ParseFloat(x.v)
      [] x.t = "int" -> Normalize(x.v, 0)
      [] x.t = "float" -> x
      [] x.t = "bool" -> Normalize(IF x.v THEN 1 ELSE 0, 0)
      [] OTHER -> Raise

\* x == "true"
IsTrueString(x) == x.t = "str" /\ x.v = <<"true">>

\* url.rsplit("/map/", 1)[0]: what precedes the last "/map/" token, or the
\* whole url when there is none.
BaseUrl(url) ==
    LET at == {i \in 1..Len(url) : url[i] = "/map/"}
    IN IF at = {} THEN url
       ELSE SubSeq(url, 1, (CHOOSE i \in at : \A j \in at : j <= i) - 1)

(***************************************************************************)
(* Format adapters.  Each returns the list of canonical records, or Raise  *)
(* when any statement of its body raises.                                  *)
(***************************************************************************)
nyc_raises(cam) == ~HasGet(cam)

nyc_record(cam) ==
    [camera_id |-> Get(cam, "id", EmptyStr),
     name |-> Get(cam, "name", EmptyStr),
     latitude |-> Get(cam, "latitude", JNull),
     longitude |-> Get(cam, "longitude", JNull),
     image_url |-> Get(cam, "imageUrl", EmptyStr),
     stream_url |-> JNull,
     direction |-> JNull,
     road |-> JNull,
     status |-> IF IsTrueString(Get(cam, "isOnline", JNull))
                THEN "online" ELSE "offline",
     raw_metadata |-> JObj([area |-> Get(cam, "area", EmptyStr)])]

\* video_url with the item's keys consulted before the expando's.
video_url_item_first(cam, expando) ==
    PyOr(PyOr(PyOr(Get(cam, "videoUrl", JNull),
                   Get(cam, "VideoUrl", JNull)),
              Get(expando, "videoUrl", JNull)),
         Get(expando, "VideoUrl", JNull))

\* video_url of process_511_system.
video_url(cam, expando) ==
    PyOr(PyOr(PyOr(Get(expando, "videoUrl", JNull),
                   Get(expando, "VideoUrl", JNull)),
              Get(cam, "videoUrl", JNull)),
         Get(cam, "VideoUrl", JNull))

s511_raises(cam) ==
    \/ ~HasGet(cam)
    \/ LET loc == Get(cam, "location", EmptyArr)
           expando == Get(cam, "expando", EmptyObj)
       IN \/ ~HasGet(expando)
          \/ ~HasLen(loc)
          \/ PyLen(loc) > 0 /\ Index(loc, 0) = Raise

s511_record(cam, source) ==
    LET loc == Get(cam, "location", EmptyArr)
        expando == Get(cam, "expando", EmptyObj)
    IN [camera_id |-> PyStr(Get(cam, "itemId", EmptyStr)),
        name |-> Get(cam, "title", EmptyStr),
        latitude |-> IF PyLen(loc) > 0 THEN Index(loc, 0) ELSE JNull,
        longitude |-> IF PyLen(loc) > 1 THEN Index(loc, 1) ELSE JNull,
        image_url |-> JStr(BaseUrl(source.url) \o <<"/map/Cameras/">>
                           \o PyStr(Get(cam, "itemId", EmptyStr)).v),
        stream_url |-> video_url(cam, expando),
        direction |-> JNull,
        road |-> JNull,
        status |-> "online",
        raw_metadata |-> IF Truthy(expando)
                         THEN JObj([videoEnabled |->
                                    Get(expando, "videoEnabled", JBool(FALSE))])
                         ELSE EmptyObj]

\* float(loc.get(key, 0)), without the gate on loc.get(key).
caltrans_coord_ungated(loc, key) == PyFloat(Get(loc, key, JInt(0)))

\* float(loc.get(key, 0)) if loc.get(key) else None
caltrans_coord(loc, key) ==
    IF Truthy(Get(loc, key, JNull)) THEN PyFloat(Get(loc, key, JInt(0)))
    ELSE JNull

caltrans_raises(item) ==
    \/ ~HasGet(item)
    \/ LET cam == Get(item, "cctv", EmptyObj)
       IN \/ ~HasGet(cam)
          \/ LET loc == Get(cam, "location", EmptyObj)
                 img == Get(cam, "imageData", EmptyObj)
             IN \/ ~HasGet(img)
                \/ ~HasGet(loc)
                \/ caltrans_coord(loc, "latitude") = Raise
                \/ caltrans_coord(loc, "longitude") = Raise
                \/ ~HasGet(Get(img, "static", EmptyObj))

caltrans_record(item) ==
    LET cam == Get(item, "cctv", EmptyObj)
        loc == Get(cam, "location", EmptyObj)
        img == Get(cam, "imageData", EmptyObj)
        static == Get(img, "static", EmptyObj)
    IN [camera_id |-> Get(cam, "index", EmptyStr),
        name |-> Get(loc, "locationName", EmptyStr),
        latitude |-> caltrans_coord(loc, "latitude"),
        longitude |-> caltrans_coord(loc, "longitude"),
        image_url |-> Get(static, "currentImageURL", EmptyStr),
        stream_url |-> Get(img, "streamingVideoURL", JNull),
        direction |-> Get(loc, "direction", JNull),
        road |-> Get(loc, "route", JNull),
        status |-> IF IsTrueString(Get(cam, "inService", JNull))
                   THEN "online" ELSE "offline",
        raw_metadata |-> JObj([district |-> Get(loc, "district", JNull),
                               county |-> Get(loc, "county", JNull),
                               nearbyPlace |-> Get(loc, "nearbyPlace", JNull),
                               elevation |-> Get(loc, "elevation", JNull),
                               postmile |-> Get(loc, "postmile", JNull),
                               milepost |-> Get(loc, "milepost", JNull)])]


arcgis_raises(feature) ==
    \/ ~HasGet(feature)
    \/ ~HasGet(Get(feature, "attributes", EmptyObj))
    \/ ~HasGet(Get(feature, "geometry", EmptyObj))

arcgis_record(feature) ==
    LET attrs == Get(feature, "attributes", EmptyObj)
        geom == Get(feature, "geometry", EmptyObj)
    IN [camera_id |-> PyStr(Get(attrs, "OBJECTID",
                                Get(attrs, "feedID", EmptyStr))),
        name |-> Get(attrs, "location", Get(attrs, "name", EmptyStr)),
        latitude |-> Get(attrs, "lat", Get(geom, "y", JNull)),
        longitude |-> Get(attrs, "long", Get(geom, "x", JNull)),
        image_url |-> Get(attrs, "url", EmptyStr),
        stream_url |-> JNull,
        direction |-> JNull,
        road |-> JNull,
        status |-> "online",
        raw_metadata |-> JObj([county |-> Get(attrs, "county", JNull),
                               feedID |-> Get(attrs, "feedID", JNull)])]

\* Whether the loop body of the kind's adapter raises on entry e.
EntryRaises(kind, e) ==
    CASE kind = "nyc_dot" -> nyc_raises(e)
      [] kind = "511_system" -> s511_raises(e)
      [] kind = "caltrans" -> caltrans_raises(e)
      [] kind = "arcgis" -> arcgis_raises(e)

\* The record the loop body of the kind's adapter appends for entry e.
EntryRecord(kind, e, source) ==
    CASE kind = "nyc_dot" -> nyc_record(e)
      [] kind = "511_system" -> s511_record(e, source)
      [] kind = "caltrans" -> caltrans_record(e)
      [] kind = "arcgis" -> arcgis_record(e)

CollectItems(kind, items, source) ==
    IF items = Raise THEN Raise
    ELSE IF \E e \in Range(items.v) : EntryRaises(kind, e) THEN Raise
    ELSE JArr([i \in 1..Len(items.v) |->
                 Only({EntryRecord(kind, e, source) : e \in {items.v[i]}})])

\* The loop `cameras = []; for e in coll: cameras.append({...})`.
Collect(kind, coll, source) ==
    Only({CollectItems(kind, items, source) : items \in {Iterate(coll)}})

\* process_nyc_dot that skips the cameras it reports offline.
process_nyc_dot_online_only(data, source) ==
    LET all == Collect("nyc_dot", data, source)
        on(c) == c.status = "online"
    IN IF all = Raise THEN Raise ELSE JArr(SelectSeq(all.v, on))

process_nyc_dot(data, source) == Collect("nyc_dot", data, source)

process_511_system(data, source) ==
    IF ~HasGet(data) THEN Raise
    ELSE Collect("511_system", Get(data, "item2", EmptyArr), source)

process_caltrans(data, source) ==
    IF ~HasGet(data) THEN Raise
    ELSE Collect("caltrans", Get(data, "data", EmptyArr), source)

process_arcgis(data, source) ==
    IF ~HasGet(data) THEN Raise
    ELSE Collect("arcgis", Get(data, "features", EmptyArr), source)

\* The keys of the PROCESSORS table.
PROCESSORS == {"nyc_dot", "511_system", "caltrans", "arcgis"}

\* processor = PROCESSORS.get(kind); processor(data, source).  Calling the
\* None that .get returns for an unknown kind raises TypeError.
CallProcessor(kind, data, source) ==
    CASE kind = "nyc_dot" -> process_nyc_dot(data, source)
      [] kind = "511_system" -> process_511_system(data, source)
      [] kind = "caltrans" -> process_caltrans(data, source)
      [] kind = "arcgis" -> process_arcgis(data, source)
      [] OTHER -> Raise

(***************************************************************************)
(* The registry.  A run's SOURCES is a sequence of distinct descriptors    *)
(* taken from SourcePool: one descriptor of the program's list per adapter *)
(* kind, and one whose processor names no entry of PROCESSORS.             *)
(***************************************************************************)
SourcePool ==
    {[id |-> "ny_nycdot", name |-> "NYC DOT", state |-> "NY", type |-> "City",
      url |-> <<"https://webcams.nyctmc.org", "/api/cameras">>,
      processor |-> "nyc_dot"],
     [id |-> "ny_511ny", name |-> "511NY - New York State", state |-> "NY",
      type |-> "State",
      url |-> <<"https://511ny.org", "/map/", "mapIcons/Cameras">>,
      processor |-> "511_system"],
     [id |-> "ca_caltrans_d7", name |-> "Caltrans District 7 - LA Metro",
      state |-> "CA", type |-> "State District",
      url |-> <<"https://cwwp2.dot.ca.gov", "/data/d7/cctv/cctvStatusD07.json">>,
      processor |-> "caltrans"],
     [id |-> "md_chart", name |-> "Maryland CHART", state |-> "MD",
      type |-> "State",
      url |-> <<"https://mdgeodata.md.gov", "/imap/rest/services/query">>,
      processor |-> "arcgis"],
     [id |-> "xx_feed", name |-> "Unregistered Feed", state |-> "XX",
      type |-> "State",
      url |-> <<"https://feed.example", "/cameras.xml">>,
      processor |-> "geojson"]}

Registries ==
    UNION {{r \in [1..n -> SourcePool] :
              \A i, j \in 1..n : i # j => r[i] # r[j]} : n \in 0..MaxSources}

REQUIRES_AUTH ==
    <<[state |-> "CO", name |-> "Colorado COTRIP"],
      [state |-> "OH", name |-> "Ohio OHGO"],
      [state |-> "IL", name |-> "Travel Midwest / Illinois Gateway"],
      [state |-> "VA", name |-> "Virginia 511"],
      [state |-> "TN", name |-> "Tennessee SmartWay"],
      [state |-> "TX", name |-> "Texas DriveTexas"],
      [state |-> "MA", name |-> "Massachusetts 511"],
      [state |-> "MN", name |-> "Minnesota 511"],
      [state |-> "MI", name |-> "Michigan DOT"],
      [state |-> "NJ", name |-> "New Jersey 511"]>>

(***************************************************************************)
(* Response bodies.  A body is a Python string; a body that is a JSON      *)
(* document carries the value json.loads gives for it in the field doc.    *)
(***************************************************************************)
JsonText(doc) == [t |-> "str", v |-> <<"json">>, doc |-> doc]

NotJsonText == JStr(<<"<html>">>)

\* json.loads(text)
json_loads(txt) == IF "doc" \in DOMAIN txt THEN txt.doc ELSE Raise

Cam(id, online) ==
    JObj([id |-> JStr(<<id>>), name |-> JStr(<<"Broadway @ 42 St">>),
          latitude |-> JInt(40), longitude |-> JInt(-73),
          imageUrl |-> JStr(<<"https://webcams.nyctmc.org/img/", id>>),
          isOnline |-> online, area |-> JStr(<<"Manhattan">>)])

NycTwoCameras == JArr(<<Cam("a1", JStr(<<"true">>)), Cam("a2", JBool(TRUE))>>)

Empty511 == JObj([item1 |-> JStr(<<"icon">>), item2 |-> EmptyArr])

One511 ==
    JObj([item1 |-> JStr(<<"icon">>),
          item2 |-> JArr(<<JObj([itemId |-> JInt(17),
                                 title |-> JStr(<<"I-87 at Exit 2">>),
                                 location |-> JArr(<<JInt(41), JInt(-74)>>)])>>)])

NullLocation511 ==
    JObj([item2 |-> JArr(<<JObj([itemId |-> JInt(18), location |-> JNull])>>)])

OneCaltrans ==
    JObj([data |-> JArr(<<JObj([cctv |->
            JObj([index |-> JStr(<<"1">>), inService |-> JStr(<<"true">>),
                  location |-> JObj([locationName |-> JStr(<<"I-5 : Main">>),
                                     latitude |-> JStr(<<"3", "4", ".", "0", "5">>),
                                     longitude |-> JStr(<<"-", "1", "1", "8">>)])])])>>)])

EmptyCaltrans == JObj([data |-> EmptyArr])

OneArcgis ==
    JObj([features |-> JArr(<<JObj([attributes |-> JObj([OBJECTID |-> JInt(5)]),
                                    geometry |-> JObj([x |-> JInt(-76),
                                                       y |-> JInt(39)])])>>)])

EmptyArcgis == JObj([features |-> EmptyArr])

\* The documents a source of the given kind is offered in a run.
Docs(kind) ==
    CASE kind = "nyc_dot" -> {NycTwoCameras, EmptyArr, JInt(0)}
      [] kind = "511_system" -> {One511, Empty511, NullLocation511}
      [] kind = "caltrans" -> {OneCaltrans, EmptyCaltrans, JNull}
      [] kind = "arcgis" -> {OneArcgis, EmptyArcgis, EmptyArr}
      [] OTHER -> {NycTwoCameras}

\* fetch_url(url): None on any transport error, status error or timeout,
\* otherwise response.text, which may be the empty string.
fetch_url(source) ==
    {JNull, EmptyStr, NotJsonText} \cup {JsonText(d) : d \in Docs(source.processor)}

(***************************************************************************)
(* process_source: what it returns (ret) and the outcome it prints (msg).  *)
(***************************************************************************)
\* SourceResult with the count taken as the index of the last camera.
SourceResult_last_index(source, cameras) ==
    JObj([source_id |-> source.id,
          source_name |-> source.name,
          source_url |-> source.url,
          state |-> source.state,
          jurisdiction_type |-> source.type,
          last_fetched |-> "utcnow",
          api_type |-> "REST/JSON",
          camera_count |-> Len(cameras.v) - 1,
          cameras |-> cameras.v])

SourceResult(source, cameras) ==
    JObj([source_id |-> source.id,
          source_name |-> source.name,
          source_url |-> source.url,
          state |-> source.state,
          jurisdiction_type |-> source.type,
          last_fetched |-> "utcnow",
          api_type |-> "REST/JSON",
          camera_count |-> Len(cameras.v),
          cameras |-> cameras.v])

\* The try block up to `cameras = processor(data, source)`: the list the
\* adapter returns, or Raise when json.loads, the table lookup's result or
\* the adapter raises.
run_processor(source, txt) ==
    Only({IF data = Raise THEN Raise
          ELSE CallProcessor(source.processor, data, source) :
            data \in {json_loads(txt)}})

\* The rest of the try block with a handler that misses the exception.
finish_uncaught(source, cameras) ==
    IF cameras = Raise
    THEN [ret |-> Raise, msg |-> "Traceback"]
    ELSE IF ~Truthy(cameras)
    THEN [ret |-> JNull, msg |-> "FAILED (no cameras found)"]
    ELSE [ret |-> SourceResult(source, cameras), msg |-> "OK"]

\* The rest of the try block without the `if not cameras` stage.
finish_keeps_empty(source, cameras) ==
    IF cameras = Raise
    THEN [ret |-> JNull, msg |-> "FAILED (exception)"]
    ELSE [ret |-> SourceResult(source, cameras), msg |-> "OK"]

\* The rest of the try block and its except clause.
finish(source, cameras) ==
    IF cameras = Raise
    THEN [ret |-> JNull, msg |-> "FAILED (exception)"]
    ELSE IF ~Truthy(cameras)
    THEN [ret |-> JNull, msg |-> "FAILED (no cameras found)"]
    ELSE [ret |-> SourceResult(source, cameras), msg |-> "OK"]

\* The stages of process_source that run on the fetched text: fetch_url
\* always, json.loads only past the `if not text` return, the adapter only
\* when json.loads returned.
stages_run(txt) ==
    IF ~Truthy(txt) THEN <<"fetch">>
    ELSE IF json_loads(txt) = Raise THEN <<"fetch", "parse">>
    ELSE <<"fetch", "parse", "adapter">>

process_source(source, txt) ==
    IF ~Truthy(txt) THEN [ret |-> JNull, msg |-> "FAILED (fetch error)"]
    ELSE Only({finish(source, cameras) :
                 cameras \in {run_processor(source, txt)}})

(***************************************************************************)
(* main()                                                                  *)
(***************************************************************************)
AdapterIdle ==
    /\ a_pc = "idle"
    /\ a_kind = "none"
    /\ a_source = JNull
    /\ a_data = JNull
    /\ a_out = JNull

Init ==
    /\ SOURCES \in Registries
    /\ pc = IF Len(SOURCES) = 0 THEN "report" ELSE "fetch"
    /\ idx = 1
    /\ text = JNull
    /\ result = JNull
    /\ results = <<>>
    /\ failed = <<>>
    /\ total_cameras = 0
    /\ output = JNull
    /\ calls = <<>>
    /\ log = <<>>
    /\ stages = <<>>
    /\ fetches = 0
    /\ sleeps = 0
    /\ responses = <<>>
    /\ AdapterIdle

\* process_source is entered for SOURCES[idx] and fetch_url returns.
Fetch ==
    /\ pc = "fetch"
    /\ \E r \in fetch_url(SOURCES[idx]) :
         /\ text' = r
         /\ responses' = Append(responses, r)
    /\ calls' = Append(calls, SOURCES[idx].name)
    /\ fetches' = fetches + 1
    /\ pc' = "process"
    /\ UNCHANGED <<SOURCES, idx, result, results, failed, total_cameras,
                   output, log, stages, sleeps>>
    /\ UNCHANGED adapterVars

\* The rest of process_source, up to its return.  An exception that left
\* process_source would leave main() too and end the run (pc = "aborted").
ProcessSource ==
    /\ pc = "process"
    /\ \E r \in {process_source(SOURCES[idx], text)} :
          /\ result' = r.ret
          /\ log' = Append(log, r.msg)
          /\ stages' = Append(stages, stages_run(text))
          /\ pc' = IF r.ret = Raise THEN "aborted" ELSE "record"
    /\ UNCHANGED <<SOURCES, idx, text, results, failed, total_cameras,
                   output, calls, fetches, sleeps, responses>>
    /\ UNCHANGED adapterVars

\* total_cameras += 1
AddCount_one(total, res) == total + 1

AddCount(total, res) == total + res.v.camera_count

\* The loop body with failed.append outside the else branch.
Record_always_failed ==
    /\ pc = "record"
    /\ IF Truthy(result)
       THEN /\ results' = Append(results, result)
            /\ total_cameras' = total_cameras + result.v.camera_count
       ELSE UNCHANGED <<results, total_cameras>>
    /\ failed' = Append(failed, SOURCES[idx].name)
    /\ sleeps' = sleeps + 1
    /\ idx' = idx + 1
    /\ pc' = IF idx + 1 > Len(SOURCES) THEN "report" ELSE "fetch"
    /\ UNCHANGED <<SOURCES, text, result, output, calls, log, stages, fetches,
                   responses>>
    /\ UNCHANGED adapterVars

\* The loop body with time.sleep inside the success branch.
Record_sleep_on_success ==
    /\ pc = "record"
    /\ IF Truthy(result)
       THEN /\ results' = Append(results, result)
            /\ total_cameras' = total_cameras + result.v.camera_count
            /\ failed' = failed
            /\ sleeps' = sleeps + 1
       ELSE /\ failed' = Append(failed, SOURCES[idx].name)
            /\ UNCHANGED <<results, total_cameras, sleeps>>
    /\ idx' = idx + 1
    /\ pc' = IF idx + 1 > Len(SOURCES) THEN "report" ELSE "fetch"
    /\ UNCHANGED <<SOURCES, text, result, output, calls, log, stages, fetches,
                   responses>>
    /\ UNCHANGED adapterVars

\* The loop body after the call: accumulate, then time.sleep.
Record ==
    /\ pc = "record"
    /\ IF Truthy(result)
       THEN /\ results' = Append(results, result)
            /\ total_cameras' = AddCount(total_cameras, result)
            /\ failed' = failed
       ELSE /\ failed' = Append(failed, SOURCES[idx].name)
            /\ UNCHANGED <<results, total_cameras>>
    /\ sleeps' = sleeps + 1
    /\ idx' = idx + 1
    /\ pc' = IF idx + 1 > Len(SOURCES) THEN "report" ELSE "fetch"
    /\ UNCHANGED <<SOURCES, text, result, output, calls, log, stages, fetches,
                   responses>>
    /\ UNCHANGED adapterVars

BuildOutput(res, fl, total) ==
    [metadata |-> [generated_at |-> "utcnow",
                   total_cameras |-> total,
                   sources_processed |-> Len(res),
                   sources_failed |-> Len(fl),
                   failed_sources |-> fl,
                   sources_requiring_auth |->
                       [i \in 1..Len(REQUIRES_AUTH) |-> REQUIRES_AUTH[i].name],
                   notes |-> "Some state DOTs require API keys or registration."],
     sources |-> res]

\* The report is built and written.
Report ==
    /\ pc = "report"
    /\ output' = BuildOutput(results, failed, total_cameras)
    /\ pc' = "done"
    /\ UNCHANGED <<SOURCES, idx, text, result, results, failed, total_cameras,
                   calls, log, stages, fetches, sleeps, responses>>
    /\ UNCHANGED adapterVars

Next == Fetch \/ ProcessSource \/ Record \/ Report

Spec == Init /\ [][Next]_vars

\* main() runs to completion: no step waits on anything but the blocking
\* fetch, which returns once its timeout elapses.
FairSpec == Spec /\ WF_vars(Next)

(***************************************************************************)
(* AdapterSpec: one adapter applied to one payload.  Payloads have the     *)
(* adapter's top-level shape and up to MaxEntries entries; the fields of   *)
(* an entry are absent, null, well-typed or wrongly typed.                 *)
(***************************************************************************)
\* The dict with the fields of f that are not Absent.
MkObj(f) == JObj([k \in {k2 \in DOMAIN f : f[k2] # Absent} |-> f[k]])

ListsOf(pool) == UNION {[1..n -> pool] : n \in 0..MaxEntries}

NycEntries ==
    {MkObj([id |-> i, name |-> JStr(<<"Broadway @ 42 St">>), latitude |-> la,
            longitude |-> la, imageUrl |-> JStr(<<"https://img/1">>),
            isOnline |-> on, area |-> JStr(<<"Manhattan">>)]) :
       i \in {Absent, JStr(<<"a1">>), JInt(3)},
       la \in {Absent, JNull, JInt(40)},
       on \in {Absent, JStr(<<"true">>), JBool(TRUE), JStr(<<"false">>)}}

ItemStream == JStr(<<"https://item/stream">>)

ItemStream2 == JStr(<<"https://item/Stream">>)

ExpandoStream == JStr(<<"https://expando/stream">>)

ExpandoStream2 == JStr(<<"https://expando/Stream">>)

Entries511 ==
    {MkObj([itemId |-> i, title |-> JStr(<<"I-87 at Exit 2">>),
            location |-> loc]) :
       i \in {Absent, JInt(17)},
       loc \in {Absent, JNull, EmptyArr, JArr(<<JInt(41)>>),
                JArr(<<JInt(41), JInt(-74)>>), JStr(<<"4", "1">>)}}
    \cup
    {MkObj([itemId |-> JInt(17), expando |-> e, videoUrl |-> v1,
            VideoUrl |-> v2]) :
       e \in {Absent, JNull, EmptyObj,
              JObj([videoUrl |-> ExpandoStream]),
              JObj([VideoUrl |-> ExpandoStream2]),
              JObj([videoUrl |-> EmptyStr, videoEnabled |-> JBool(TRUE)])},
       v1 \in {Absent, ItemStream},
       v2 \in {Absent, EmptyStr, ItemStream2}}

LatOptions ==
    {Absent, JNull, EmptyStr, JStr(<<"3", "4", ".", "0", "5">>), JStr(<<"0">>),
     JStr(<<"0", ".", "0">>), JStr(<<"-", "1", "1", "8", ".", "2", "5", "0">>),
     JStr(<<"N/A">>), JInt(0), JInt(34)}

CaltransLocations ==
    {Absent, JNull}
    \cup {MkObj([locationName |-> JStr(<<"I-5 : Main">>), latitude |-> la,
                 longitude |-> lo, route |-> JStr(<<"I-5">>)]) :
            la \in LatOptions, lo \in {Absent, JStr(<<"-", "1", "1", "8">>)}}

CaltransCameras ==
    {Absent, JNull}
    \cup {MkObj([index |-> JStr(<<"1">>), inService |-> JStr(<<"true">>),
                 location |-> l]) : l \in CaltransLocations}
    \cup {MkObj([index |-> JStr(<<"2">>), inService |-> JBool(TRUE),
                 imageData |-> im]) :
            im \in {JNull, JObj([static |-> JNull]),
                    JObj([static |-> JObj([currentImageURL |->
                                             JStr(<<"https://img/2">>)]),
                          streamingVideoURL |-> JStr(<<"https://hls/2">>)])}}

CaltransEntries == {MkObj([cctv |-> c]) : c \in CaltransCameras}

ArcgisEntries ==
    {MkObj([attributes |-> a, geometry |-> JObj([x |-> JInt(-76), y |-> JInt(39)])]) :
       a \in {Absent, JNull}}
    \cup
    {MkObj([attributes |-> MkObj([OBJECTID |-> o, feedID |-> f, lat |-> la,
                                  long |-> la, county |-> JStr(<<"Howard">>)]),
            geometry |-> g]) :
       o \in {Absent, JNull, JInt(5)},
       f \in {Absent, JStr(<<"f9">>)},
       la \in {Absent, JNull, JInt(38)},
       g \in {Absent, JNull, JObj([x |-> JInt(-76), y |-> JInt(39)])}}

EntryPool(kind) ==
    CASE kind = "nyc_dot" -> NycEntries
      [] kind = "511_system" -> Entries511
      [] kind = "caltrans" -> CaltransEntries
      [] kind = "arcgis" -> ArcgisEntries

\* The payload of the kind's top-level shape that holds the entries es.
Envelope(kind, es) ==
    CASE kind = "nyc_dot" -> JArr(es)
      [] kind = "511_system" -> JObj([item1 |-> JStr(<<"icon">>), item2 |-> JArr(es)])
      [] kind = "caltrans" -> JObj([data |-> JArr(es)])
      [] kind = "arcgis" -> JObj([features |-> JArr(es)])

\* The entries of a payload of the kind's top-level shape.
Entries(kind, data) ==
    CASE kind = "nyc_dot" -> data.v
      [] kind = "511_system" -> data.v["item2"].v
      [] kind = "caltrans" -> data.v["data"].v
      [] kind = "arcgis" -> data.v["features"].v

Payloads(kind) == {Envelope(kind, es) : es \in ListsOf(EntryPool(kind))}

AdapterInit ==
    /\ a_pc = "ready"
    /\ a_kind \in PROCESSORS
    /\ a_source \in {d \in SourcePool : d.processor = a_kind}
    /\ a_data \in Payloads(a_kind)
    /\ a_out = JNull
    /\ SOURCES = <<>>
    /\ pc = "idle"
    /\ idx = 1
    /\ text = JNull
    /\ result = JNull
    /\ results = <<>>
    /\ failed = <<>>
    /\ total_cameras = 0
    /\ output = JNull
    /\ calls = <<>>
    /\ log = <<>>
    /\ stages = <<>>
    /\ fetches = 0
    /\ sleeps = 0
    /\ responses = <<>>

\* cameras = processor(data, source)
ApplyAdapter ==
    /\ a_pc = "ready"
    /\ a_out' = CallProcessor(a_kind, a_data, a_source)
    /\ a_pc' = "applied"
    /\ UNCHANGED <<a_kind, a_source, a_data>>
    /\ UNCHANGED mainVars

AdapterNext == ApplyAdapter

AdapterSpec == AdapterInit /\ [][AdapterNext]_vars

(***************************************************************************)
(* Properties of main() (Spec, FairSpec).                                  *)
(***************************************************************************)
RECURSIVE SumCounts(_)
SumCounts(rs) ==
    IF rs = <<>> THEN 0
    ELSE rs[1].v.camera_count + SumCounts(Tail(rs))

ResultIds(rs) == {rs[i].v.source_id : i \in 1..Len(rs)}

\* C1: a run never aborts on a source's failure: no exception leaves
\* process_source, every source of SOURCES is processed, the run reaches the
\* point where the report is built and written, and when every source failed
\* the report has total_cameras = 0, sources_processed = 0 and no sources.
C1_RunAlwaysCompletes ==
    /\ [](pc # "aborted" /\ result # Raise)
    /\ <>(pc = "done")
    /\ [](pc = "done" =>
            /\ Len(calls) = Len(SOURCES)
            /\ output # JNull
            /\ (Len(failed) = Len(SOURCES) =>
                  /\ output.metadata.total_cameras = 0
                  /\ output.metadata.sources_processed = 0
                  /\ output.sources = <<>>))

C1_Witness ==
    /\ pc = "done"
    /\ Len(SOURCES) >= 3
    /\ Len(failed) = Len(SOURCES)
    /\ {"FAILED (fetch error)", "FAILED (exception)",
        "FAILED (no cameras found)"} \subseteq Range(log)
    /\ output.metadata.total_cameras = 0

\* C2: total_cameras is the sum of camera_count over the results accumulated
\* so far, and in the report over exactly the SourceResults of its sources.
C2_TotalIsSumOfCounts ==
    /\ total_cameras = SumCounts(results)
    /\ pc = "done" =>
         output.metadata.total_cameras = SumCounts(output.sources)

C2_Witness ==
    /\ pc = "done"
    /\ Len(output.sources) >= 2
    /\ Len(failed) >= 1
    /\ output.metadata.total_cameras >= 3

\* C3: every handled source is in exactly one of the success list and the
\* failed-name list, and in the report sources_processed + sources_failed is
\* the number of sources of the registry.
C3_ProcessedPlusFailed ==
    /\ \A i \in 1..Len(SOURCES) :
         LET inResults == SOURCES[i].id \in ResultIds(results)
             inFailed == SOURCES[i].name \in Range(failed)
         IN IF i < idx THEN inResults # inFailed
            ELSE ~inResults /\ ~inFailed
    /\ Len(results) + Len(failed) = idx - 1
    /\ pc = "done" =>
         output.metadata.sources_processed + output.metadata.sources_failed
            = Len(SOURCES)

C3_Witness ==
    /\ pc = "done"
    /\ Len(SOURCES) >= 3
    /\ output.metadata.sources_processed >= 1
    /\ output.metadata.sources_failed >= 1

\* The i-th source was fetched and parsed and its adapter returned an empty
\* list without raising.
EmptyAdapterResult(i) ==
    /\ Truthy(responses[i])
    /\ json_loads(responses[i]) # Raise
    /\ LET cameras == CallProcessor(SOURCES[i].processor,
                                    json_loads(responses[i]), SOURCES[i])
       IN cameras # Raise /\ ~Truthy(cameras)

\* C4: when fetch and parse succeed and the adapter returns an empty list,
\* process_source returns None and main records the source's name in failed
\* and leaves it out of results (and so out of total_cameras).
C4_EmptyResultIsFailure ==
    \A i \in 1..Len(responses) :
       EmptyAdapterResult(i) =>
          /\ (i = idx /\ pc = "record") => result = JNull
          /\ i < idx =>
               /\ SOURCES[i].name \in Range(failed)
               /\ SOURCES[i].id \notin ResultIds(results)
               /\ total_cameras = SumCounts(results)

C4_Witness ==
    /\ pc = "done"
    /\ \E i \in 1..Len(responses) :
         /\ EmptyAdapterResult(i)
         /\ SOURCES[i].name \in Range(output.metadata.failed_sources)
    /\ Len(output.sources) >= 1

\* C5 (as claimed): a descriptor whose processor names no entry of
\* PROCESSORS is fatal at startup: no fetch is issued for any source, the
\* run does not go on to its report, and the source is never put in failed.
C5_UnknownKindFatalAtStartup ==
    (\E i \in 1..Len(SOURCES) : SOURCES[i].processor \notin PROCESSORS) =>
        /\ fetches = 0
        /\ pc # "done"
        /\ \A i \in 1..Len(SOURCES) :
              SOURCES[i].processor \notin PROCESSORS =>
                 SOURCES[i].name \notin Range(failed)

AuthNames == {REQUIRES_AUTH[i].name : i \in 1..Len(REQUIRES_AUTH)}

\* The position in SOURCES of the descriptor with the given id or name.
PosOfId(id) == CHOOSE i \in 1..Len(SOURCES) : SOURCES[i].id = id

PosOfName(name) == CHOOSE i \in 1..Len(SOURCES) : SOURCES[i].name = name

\* C6: process_source is invoked once per entry of SOURCES, in registry
\* order, one source at a time and never for an entry of REQUIRES_AUTH; the
\* delay follows every source, failed or not; sources and failed_sources
\* keep registry order.
C6_SequentialInRegistryOrder ==
    /\ Len(calls) = (IF pc \in {"process", "record"} THEN idx ELSE idx - 1)
    /\ \A i \in 1..Len(calls) : calls[i] = SOURCES[i].name
    /\ Range(calls) \cap AuthNames = {}
    /\ fetches = Len(calls)
    /\ sleeps = idx - 1
    /\ sleeps = Len(results) + Len(failed)
    /\ \A i, j \in 1..Len(results) :
          i < j => PosOfId(results[i].v.source_id) < PosOfId(results[j].v.source_id)
    /\ \A i, j \in 1..Len(failed) :
          i < j => PosOfName(failed[i]) < PosOfName(failed[j])
    /\ pc = "done" =>
          /\ Len(calls) = Len(SOURCES)
          /\ sleeps = Len(SOURCES)
          /\ output.sources = results
          /\ output.metadata.failed_sources = failed

C6_Witness ==
    /\ pc = "done"
    /\ Len(SOURCES) >= 3
    /\ Len(output.sources) >= 1
    /\ Len(output.metadata.failed_sources) >= 2
    /\ log[1] # "OK"
    /\ sleeps = Len(SOURCES)

\* Sources A, B, C: A answers with a direct array of 2 cameras, B's fetch
\* times out, C answers with a 511 document whose item2 is empty.
C7_Scenario ==
    /\ Len(SOURCES) = 3
    /\ SOURCES[1].processor = "nyc_dot"
    /\ SOURCES[3].processor = "511_system"
    /\ Len(responses) = 3
    /\ responses[1] = JsonText(NycTwoCameras)
    /\ responses[2] = JNull
    /\ responses[3] = JsonText(Empty511)

\* C7: in that scenario the report has sources_processed = 1,
\* sources_failed = 2, total_cameras = 2, failed_sources = [B, C] and only
\* A's SourceResult in sources.
C7_EndToEnd ==
    (pc = "done" /\ C7_Scenario) =>
        /\ output.metadata.sources_processed = 1
        /\ output.metadata.sources_failed = 2
        /\ output.metadata.total_cameras = 2
        /\ output.metadata.failed_sources = <<SOURCES[2].name, SOURCES[3].name>>
        /\ Len(output.sources) = 1
        /\ output.sources[1].v.source_id = SOURCES[1].id
        /\ output.sources[1].v.camera_count = 2

C7_Witness == pc = "done" /\ C7_Scenario /\ Len(output.sources) = 1

(***************************************************************************)
(* Properties of the adapters (AdapterSpec).                               *)
(***************************************************************************)
Applied(kind) == a_pc = "applied" /\ a_kind = kind

\* C8 (as claimed): on a payload of the expected top-level shape an adapter
\* does not raise and returns one record per entry, whatever the optional
\* fields of the entries hold.
C8_OneRecordPerEntry ==
    a_pc = "applied" =>
        /\ a_out # Raise
        /\ Len(a_out.v) = Len(Entries(a_kind, a_data))

\* The location dict process_caltrans reads for an item.
LocationOf(item) ==
    Get(Get(item, "cctv", EmptyObj), "location", EmptyObj)

Zero == [t |-> "float", m |-> 0, e |-> 0]

\* What the claim expects of one coordinate: raw is the field's value in the
\* payload (Absent when the key is missing), out the record's field.
CoordAsClaimed(raw, out) ==
    /\ raw \in {Absent, EmptyStr} => out = JNull /\ out # Zero
    /\ raw = JStr(<<"3", "4", ".", "0", "5">>) =>
          out = [t |-> "float", m |-> 3405, e |-> 2]
    /\ raw = JStr(<<"0">>) => out = Zero
    /\ raw = JStr(<<"0", ".", "0">>) => out = Zero
    /\ raw = JStr(<<"-", "1", "1", "8">>) =>
          out = [t |-> "float", m |-> -118, e |-> 0]
    /\ (raw.t = "str" /\ raw # EmptyStr) => out.t = "float"

\* C9: the Caltrans adapter maps a missing or empty latitude/longitude to
\* null, never to 0.0, and a present numeric string to its number ("34.05"
\* to 34.05, "0" to 0.0).
C9_CaltransCoordinates ==
    (Applied("caltrans") /\ a_out # Raise) =>
        \A i \in 1..Len(a_out.v) :
           LET loc == LocationOf(Entries("caltrans", a_data)[i])
           IN /\ CoordAsClaimed(Get(loc, "latitude", Absent),
                                a_out.v[i].latitude)
              /\ CoordAsClaimed(Get(loc, "longitude", Absent),
                                a_out.v[i].longitude)

C9_Witness ==
    /\ Applied("caltrans")
    /\ a_out # Raise
    /\ \E i, j \in 1..Len(a_out.v) :
          /\ Get(LocationOf(Entries("caltrans", a_data)[i]), "latitude", Absent)
                = EmptyStr
          /\ a_out.v[i].latitude = JNull
          /\ Get(LocationOf(Entries("caltrans", a_data)[j]), "latitude", Absent)
                = JStr(<<"0">>)
          /\ a_out.v[j].latitude = Zero

\* x carries a non-empty video URL under one of the two spellings.
CarriesVideoUrl(x) ==
    Truthy(Get(x, "videoUrl", JNull)) \/ Truthy(Get(x, "VideoUrl", JNull))

\* The video URL x carries, "videoUrl" before "VideoUrl".
VideoUrlOf(x) == PyOr(Get(x, "videoUrl", JNull), Get(x, "VideoUrl", JNull))

ExpandoOf(cam) == Get(cam, "expando", EmptyObj)

\* C10 (as claimed): stream_url is the item-level video URL when both the
\* item and its expando carry a non-empty one, and null when neither does.
C10_ItemLevelPreferred ==
    (Applied("511_system") /\ a_out # Raise) =>
        \A i \in 1..Len(a_out.v) :
           LET cam == Entries("511_system", a_data)[i]
               stream == a_out.v[i].stream_url
           IN /\ (CarriesVideoUrl(cam) /\ CarriesVideoUrl(ExpandoOf(cam))) =>
                    stream = VideoUrlOf(cam)
              /\ (~CarriesVideoUrl(cam) /\ ~CarriesVideoUrl(ExpandoOf(cam))) =>
                    stream = JNull

\* C10 (amended): stream_url is the expando-level video URL when the expando
\* carries a non-empty one, whether or not the item does; otherwise the
\* item-level one when the item carries a non-empty one; otherwise the value
\* of the item's "VideoUrl" key, which is null when that key is missing.
C10_ExpandoLevelPreferred ==
    (Applied("511_system") /\ a_out # Raise) =>
        \A i \in 1..Len(a_out.v) :
           LET cam == Entries("511_system", a_data)[i]
               stream == a_out.v[i].stream_url
           IN /\ CarriesVideoUrl(ExpandoOf(cam)) =>
                    stream = VideoUrlOf(ExpandoOf(cam))
              /\ (CarriesVideoUrl(cam) /\ ~CarriesVideoUrl(ExpandoOf(cam))) =>
                    stream = VideoUrlOf(cam)
              /\ (~CarriesVideoUrl(cam) /\ ~CarriesVideoUrl(ExpandoOf(cam))) =>
                    /\ stream = Get(cam, "VideoUrl", JNull)
                    /\ "VideoUrl" \notin DOMAIN cam.v => stream = JNull

C10_Witness ==
    /\ Applied("511_system")
    /\ a_out # Raise
    /\ \E i \in 1..Len(a_out.v) :
          LET cam == Entries("511_system", a_data)[i]
          IN /\ CarriesVideoUrl(cam)
             /\ CarriesVideoUrl(ExpandoOf(cam))
             /\ a_out.v[i].stream_url = ExpandoStream
             /\ VideoUrlOf(cam) = ItemStream

(***************************************************************************)
(* Further properties of process_source (Spec) and of the ArcGIS adapter   *)
(* (AdapterSpec).                                                          *)
(***************************************************************************)
Outcomes ==
    {"OK", "FAILED (fetch error)", "FAILED (exception)",
     "FAILED (no cameras found)"}

\* C11 (as claimed): the stages of process_source are gated, first failure
\* wins: a failed fetch reports a fetch error and runs neither json.loads
\* nor the adapter; a body that is not JSON reports a processing error and
\* does not run the adapter; an adapter exception is caught; every source
\* gets exactly one outcome; and a fetch that obtained a response is never
\* reported as a fetch error.
C11_StagedFirstFailureWins ==
    /\ Len(log) = Len(stages)
    /\ Len(log) = (IF pc \in {"fetch", "process"} THEN idx - 1
                   ELSE IF pc = "record" THEN idx ELSE Len(SOURCES))
    /\ \A i \in 1..Len(log) :
          /\ log[i] \in Outcomes
          /\ responses[i] = JNull =>
                log[i] = "FAILED (fetch error)" /\ stages[i] = <<"fetch">>
          /\ (responses[i] # JNull /\ json_loads(responses[i]) = Raise) =>
                "adapter" \notin Range(stages[i])
          /\ (Truthy(responses[i]) /\ json_loads(responses[i]) = Raise) =>
                log[i] = "FAILED (exception)"
          /\ responses[i] # JNull => log[i] # "FAILED (fetch error)"
    /\ pc # "aborted"

\* The attribute has a value: its key is present and not null.
HasValue(d, k) == k \in DOMAIN d.v /\ d.v[k] # JNull

\* The primary field of d when it has a value, otherwise the fallback.
FallBack(d, k, fallback) == IF HasValue(d, k) THEN d.v[k] ELSE fallback

\* C12 (as claimed): for every feature the ArcGIS adapter takes camera_id
\* from OBJECTID when it has a value and otherwise from feedID, latitude
\* from lat and otherwise geometry.y, longitude from long and otherwise
\* geometry.x, also when the primary key is present but null.
C12_ArcgisFallbacks ==
    (Applied("arcgis") /\ a_out # Raise) =>
        \A i \in 1..Len(a_out.v) :
           LET feature == Entries("arcgis", a_data)[i]
               attrs == Get(feature, "attributes", EmptyObj)
               geom == Get(feature, "geometry", EmptyObj)
           IN /\ a_out.v[i].camera_id =
                    PyStr(FallBack(attrs, "OBJECTID",
                                   Get(attrs, "feedID", EmptyStr)))
              /\ a_out.v[i].latitude =
                    FallBack(attrs, "lat", Get(geom, "y", JNull))
              /\ a_out.v[i].longitude =
                    FallBack(attrs, "long", Get(geom, "x", JNull))

\* r is a SourceResult whose camera_count is the length of its cameras list
\* and at least 1.
CountedResult(r) ==
    /\ r.v.camera_count = Len(r.v.cameras)
    /\ r.v.camera_count >= 1

\* C13: every SourceResult process_source returns, and so every element of
\* the report's sources, has camera_count = len(cameras) >= 1; hence
\* total_cameras >= sources_processed, and total_cameras = 0 exactly when
\* sources_processed = 0.
C13_CountsAreListLengths ==
    /\ Truthy(result) => CountedResult(result)
    /\ \A i \in 1..Len(results) : CountedResult(results[i])
    /\ total_cameras >= Len(results)
    /\ (total_cameras = 0) <=> (Len(results) = 0)
    /\ pc = "done" =>
          /\ \A i \in 1..Len(output.sources) : CountedResult(output.sources[i])
          /\ output.metadata.total_cameras >= output.metadata.sources_processed
          /\ (output.metadata.total_cameras = 0)
                <=> (output.metadata.sources_processed = 0)

C13_Witness ==
    /\ pc = "done"
    /\ Len(output.sources) >= 2
    /\ \E i \in 1..Len(output.sources) : output.sources[i].v.camera_count = 2
    /\ \E i \in 1..Len(output.sources) : output.sources[i].v.camera_count = 1
    /\ output.metadata.total_cameras > output.metadata.sources_processed

====
